---- MODULE Spec2Model ----
(***************************************************************************)
(* Model of the sasg grid generator (src/core.py, src/main.py).            *)
(*                                                                         *)
(* Numbers are records [t, v]: t is the Python type ("int" or "float") and *)
(* v the value in hundredths, so 0.25 is [t |-> "float", v |-> 25].  Text  *)
(* is a sequence of one-character strings, so str(), replace(), lower(),   *)
(* join() and float() are computed character by character.  The value     *)
(* float() returns is a decimal record [cls, neg, mant, exp] standing for  *)
(* (-1)^neg * mant * 10^exp (cls "fin"), an infinity or a NaN.             *)
(***************************************************************************)
EXTENDS Integers, Sequences, FiniteSets, TLC

VARIABLES pc, call, ret, xs, ys, i, j, c_id, lst

vars == <<pc, call, ret, xs, ys, i, j, c_id, lst>>

----------------------------------------------------------------------------
(* Bounds of the model *)

\* grid corners are the integers -1 .. MaxCoord
MaxCoord == 3
\* texts handed to retrieve_number have at most MaxTextLen characters
MaxTextLen == 4
\* float arguments of format_number are -MaxCenti .. MaxCenti hundredths
MaxCenti == 130
\* int arguments of format_number are -MaxInt .. MaxInt
MaxInt == 10

\* hundredths per unit: the two decimal places the model carries
Scale == 10 * 10

----------------------------------------------------------------------------
(* Numbers *)

PyInt(k) == [t |-> "int", v |-> k * Scale]
PyFlt(h) == [t |-> "float", v |-> h]

AbsInt(n) == IF n < 0 THEN -n ELSE n

\* abs(f_number): the type is kept
PyAbs(x) == [t |-> x.t, v |-> AbsInt(x.v)]

----------------------------------------------------------------------------
(* Text *)

Digits == <<"0", "1", "2", "3", "4", "5", "6", "7", "8", "9">>
DigitSet == {Digits[k] : k \in 1..10}
DigitChar(d) == Digits[d + 1]
DigitVal(c) == CHOOSE d \in 0..9 : Digits[d + 1] = c

UpperCase == <<"A","B","C","D","E","F","G","H","I","J","K","L","M",
               "N","O","P","Q","R","S","T","U","V","W","X","Y","Z">>
LowerCase == <<"a","b","c","d","e","f","g","h","i","j","k","l","m",
               "n","o","p","q","r","s","t","u","v","w","x","y","z">>

\* str.lower()
LowerChar(c) ==
    IF \E k \in 1..Len(UpperCase) : UpperCase[k] = c
    THEN LowerCase[CHOOSE k \in 1..Len(UpperCase) : UpperCase[k] = c]
    ELSE c
Lower(s) == [k \in 1..Len(s) |-> LowerChar(s[k])]

\* str.replace(old, new) for one-character old and new
Replace(s, old, new) == [k \in 1..Len(s) |-> IF s[k] = old THEN new ELSE s[k]]

\* sep.join(ls)
RECURSIVE Join(_, _)
Join(sep, ls) ==
    IF Len(ls) = 0 THEN <<>>
    ELSE IF Len(ls) = 1 THEN ls[1]
    ELSE ls[1] \o sep \o Join(sep, Tail(ls))

RECURSIVE NatStr(_)
NatStr(n) ==
    IF n < 10 THEN <<DigitChar(n)>>
    ELSE NatStr(n \div 10) \o <<DigitChar(n % 10)>>

\* the fraction digits of the shortest repr: trailing zeros dropped, one kept
FracStr(h) ==
    IF h % 10 = 0 THEN <<DigitChar(h \div 10)>>
    ELSE <<DigitChar(h \div 10), DigitChar(h % 10)>>

\* str(x), also what an f-string's {x} renders
PyStr(x) ==
    LET a == AbsInt(x.v)
        sign == IF x.v < 0 THEN <<"-">> ELSE <<>>
    IN  IF x.t = "int"
        THEN sign \o NatStr(a \div Scale)
        ELSE sign \o NatStr(a \div Scale) \o <<".">> \o FracStr(a % Scale)

----------------------------------------------------------------------------
(* Results of a call: a returned value or a raised exception *)

NoDec == [cls |-> "none", neg |-> FALSE, mant |-> 0, exp |-> 0]
NoRet == [exc |-> "none", text |-> <<>>, dec |-> NoDec, rows |-> <<>>]

Raise(e) == [NoRet EXCEPT !.exc = e]
ReturnText(s) == [NoRet EXCEPT !.text = s]
ReturnDec(d) == [NoRet EXCEPT !.dec = d]
ReturnRows(df) == [NoRet EXCEPT !.rows = df]

----------------------------------------------------------------------------
(* float(s) of Python *)

WhiteSpace == {" ", "\t", "\n"}

RECURSIVE LStrip(_)
LStrip(s) ==
    IF Len(s) > 0 /\ s[1] \in WhiteSpace THEN LStrip(Tail(s)) ELSE s

RECURSIVE RStrip(_)
RStrip(s) ==
    IF Len(s) > 0 /\ s[Len(s)] \in WhiteSpace
    THEN RStrip(SubSeq(s, 1, Len(s) - 1)) ELSE s

\* the first position of s holding a character of cs, 0 when there is none
IndexOf(s, cs) ==
    IF \E k \in 1..Len(s) : s[k] \in cs
    THEN CHOOSE k \in 1..Len(s) : s[k] \in cs /\ \A m \in 1..(k - 1) : s[m] \notin cs
    ELSE 0

\* digit (["_"] digit)*
DigitPart(s) ==
    /\ Len(s) >= 1
    /\ \A k \in 1..Len(s) : s[k] \in DigitSet \cup {"_"}
    /\ \A k \in 1..Len(s) :
          s[k] = "_" => /\ k > 1 /\ k < Len(s)
                        /\ s[k - 1] \in DigitSet
                        /\ s[k + 1] \in DigitSet

RECURSIVE NatVal(_)
NatVal(ds) ==
    IF Len(ds) = 0 THEN 0
    ELSE NatVal(SubSeq(ds, 1, Len(ds) - 1)) * 10 + DigitVal(ds[Len(ds)])

DigitsOf(s) == SelectSeq(s, LAMBDA c : c # "_")

\* mant * 10^exp with the trailing zeros of mant moved into exp
RECURSIVE NormDec(_, _, _)
NormDec(neg, mant, exp) ==
    IF mant = 0 THEN [cls |-> "fin", neg |-> neg, mant |-> 0, exp |-> 0]
    ELSE IF mant % 10 = 0 THEN NormDec(neg, mant \div 10, exp + 1)
    ELSE [cls |-> "fin", neg |-> neg, mant |-> mant, exp |-> exp]

\* the largest power of ten a double holds
DblMax10Exp == 308

\* a finite decimal, or the infinity it overflows to
Finite(neg, mant, exp) ==
    LET d == NormDec(neg, mant, exp)
    IN  IF d.mant # 0 /\ Len(NatStr(d.mant)) - 1 + d.exp > DblMax10Exp
        THEN [cls |-> "inf", neg |-> neg, mant |-> 0, exp |-> 0]
        ELSE d

PyFloat(s) ==
    LET t == RStrip(LStrip(s))
        signed == Len(t) > 0 /\ t[1] \in {"+", "-"}
        neg == signed /\ t[1] = "-"
        body == IF signed THEN Tail(t) ELSE t
        word == Lower(body)
        ePos == IndexOf(body, {"e", "E"})
        mantTxt == IF ePos = 0 THEN body ELSE SubSeq(body, 1, ePos - 1)
        expTxt == IF ePos = 0 THEN <<>> ELSE SubSeq(body, ePos + 1, Len(body))
        expSigned == Len(expTxt) > 0 /\ expTxt[1] \in {"+", "-"}
        expDigits == IF expSigned THEN Tail(expTxt) ELSE expTxt
        dot == IndexOf(mantTxt, {"."})
        ip == IF dot = 0 THEN mantTxt ELSE SubSeq(mantTxt, 1, dot - 1)
        fp == IF dot = 0 THEN <<>> ELSE SubSeq(mantTxt, dot + 1, Len(mantTxt))
        okMant == /\ Len(ip) = 0 \/ DigitPart(ip)
                  /\ Len(fp) = 0 \/ DigitPart(fp)
                  /\ Len(ip) + Len(fp) > 0
        okExp == ePos = 0 \/ DigitPart(expDigits)
        e10 == IF ePos = 0 THEN 0
               ELSE IF expSigned /\ expTxt[1] = "-" THEN -NatVal(DigitsOf(expDigits))
               ELSE NatVal(DigitsOf(expDigits))
    IN  IF word \in {<<"i","n","f">>, <<"i","n","f","i","n","i","t","y">>}
        THEN ReturnDec([cls |-> "inf", neg |-> neg, mant |-> 0, exp |-> 0])
        ELSE IF word = <<"n","a","n">>
        THEN ReturnDec([cls |-> "nan", neg |-> neg, mant |-> 0, exp |-> 0])
        ELSE IF okMant /\ okExp
        THEN ReturnDec(Finite(neg, NatVal(DigitsOf(ip) \o DigitsOf(fp)),
                              e10 - Len(DigitsOf(fp))))
        ELSE Raise("ValueError")

----------------------------------------------------------------------------
(* create_rectangle_wkt *)

\* the same corners visited the other way round
create_rectangle_wkt_reversed(x_min, x_max, y_min, y_max) ==
    LET sp == <<" ">>
        cm == <<",", " ">>
    IN  <<"P","O","L","Y","G","O","N","(","(">>
        \o PyStr(x_min) \o sp \o PyStr(y_min) \o cm
        \o PyStr(x_max) \o sp \o PyStr(y_min) \o cm
        \o PyStr(x_max) \o sp \o PyStr(y_max) \o cm
        \o PyStr(x_min) \o sp \o PyStr(y_max) \o cm
        \o PyStr(x_min) \o sp \o PyStr(y_min)
        \o <<")", ")">>

create_rectangle_wkt(x_min, x_max, y_min, y_max) ==
    LET sp == <<" ">>
        cm == <<",", " ">>
    IN  <<"P","O","L","Y","G","O","N","(","(">>
        \o PyStr(x_min) \o sp \o PyStr(y_min) \o cm
        \o PyStr(x_min) \o sp \o PyStr(y_max) \o cm
        \o PyStr(x_max) \o sp \o PyStr(y_max) \o cm
        \o PyStr(x_max) \o sp \o PyStr(y_min) \o cm
        \o PyStr(x_min) \o sp \o PyStr(y_min)
        \o <<")", ")">>

----------------------------------------------------------------------------
(* retrieve_number *)

d_signal == ("w" :> "-") @@ ("s" :> "-") @@ ("n" :> "+") @@ ("e" :> "+")

retrieve_number(s_number) ==
    LET s1 == Lower(s_number)
        s2 == Replace(s1, "p", ".")
    IN  IF Len(s2) = 0 THEN Raise("IndexError")
        ELSE IF s2[1] \notin DOMAIN d_signal THEN Raise("KeyError")
        ELSE PyFloat(<<d_signal[s2[1]]>> \o Tail(s2))

----------------------------------------------------------------------------
(* format_number; the axis None is the string "None" *)

d_signal_positive == ("y" :> "n") @@ ("x" :> "e")
\* the negative table holding the letters of the positive one
d_signal_negative_copied == ("y" :> "n") @@ ("x" :> "e")
d_signal_negative == ("y" :> "s") @@ ("x" :> "w")

format_number(f_number, axis) ==
    IF f_number.v >= 0 /\ axis \notin DOMAIN d_signal_positive THEN Raise("KeyError")
    ELSE IF f_number.v < 0 /\ axis \notin DOMAIN d_signal_negative THEN Raise("KeyError")
    ELSE LET s_hem == IF f_number.v >= 0 THEN d_signal_positive[axis]
                      ELSE d_signal_negative[axis]
             f_abs == PyAbs(f_number)
             s_abs == Replace(PyStr(f_abs), ".", "p")
         IN  ReturnText((IF axis = "None" THEN <<>> ELSE <<s_hem>>) \o s_abs)

----------------------------------------------------------------------------
(* get_code *)

\* the list built corner by corner instead of axis by axis
get_code_by_corner(x_min, x_max, y_min, y_max) ==
    LET ls == << format_number(x_min, "x").text,
                 format_number(y_min, "y").text,
                 format_number(x_max, "x").text,
                 format_number(y_max, "y").text >>
    IN  Join(<<"-">>, ls)

get_code(x_min, x_max, y_min, y_max) ==
    LET ls == << format_number(x_min, "x").text,
                 format_number(x_max, "x").text,
                 format_number(y_min, "y").text,
                 format_number(y_max, "y").text >>
    IN  Join(<<"-">>, ls)

----------------------------------------------------------------------------
(* numpy.arange(start, stop, step) on Python numbers *)

\* ceil(n / d) for d > 0
CeilDiv(n, d) == -((-n) \div d)

\* a closed interval: stop itself is a member when it is on the lattice
ArangeLen_closed(start, stop, step) ==
    LET q == IF step.v > 0 THEN ((stop.v - start.v) \div step.v) + 1
             ELSE ((start.v - stop.v) \div (-step.v)) + 1
    IN  IF q > 0 THEN q ELSE 0

ArangeLen(start, stop, step) ==
    LET q == IF step.v > 0 THEN CeilDiv(stop.v - start.v, step.v)
             ELSE CeilDiv(start.v - stop.v, -step.v)
    IN  IF q > 0 THEN q ELSE 0

Arange(start, stop, step) ==
    [k \in 1..ArangeLen(start, stop, step) |->
        [t |-> IF start.t = "int" /\ stop.t = "int" /\ step.t = "int"
               THEN "int" ELSE "float",
         v |-> start.v + (k - 1) * step.v]]

----------------------------------------------------------------------------
(* get_grid_df *)

EmptyLists == [ids |-> <<>>, codes |-> <<>>, xmin |-> <<>>, xmax |-> <<>>,
               ymin |-> <<>>, ymax |-> <<>>, wkt |-> <<>>]

\* pd.DataFrame(d): one row per position of the seven lists
DataFrame(d) ==
    [k \in 1..Len(d.ids) |->
        [Id |-> d.ids[k], tile_code |-> d.codes[k],
         x_min |-> d.xmin[k], x_max |-> d.xmax[k],
         y_min |-> d.ymin[k], y_max |-> d.ymax[k],
         geometry |-> d.wkt[k]]]

\* the body of the inner loop at (ii, jj): what it appends to the lists
LoopBody(d, ii, jj, id) ==
    LET xmin == xs[ii + 1]
        xmax == xs[ii + 2]
        ymin == ys[jj + 1]
        ymax == ys[jj + 2]
        s == create_rectangle_wkt(xmin, xmax, ymin, ymax)
    IN  [ids |-> Append(d.ids, id),
         codes |-> Append(d.codes, get_code(xmin, xmax, ymin, ymax)),
         xmin |-> Append(d.xmin, xmin), xmax |-> Append(d.xmax, xmax),
         ymin |-> Append(d.ymin, ymin), ymax |-> Append(d.ymax, ymax),
         wkt |-> Append(d.wkt, s)]

\* the loops nested the other way: i running fastest
LoopAdvance_y_outer(ii, jj, nx, ny) ==
    IF ii + 1 < nx THEN <<ii + 1, jj>> ELSE <<0, jj + 1>>

\* the nested for loops: the (i, j) after (ii, jj), j running fastest
LoopAdvance(ii, jj, nx, ny) ==
    IF jj + 1 < ny THEN <<ii, jj + 1>> ELSE <<ii + 1, 0>>

\* whether the loops over range(nx) and range(ny) are past their last (i, j);
\* with ny <= 0 the outer loop runs without ever entering the inner one
LoopOver(ii, jj, nx, ny) == ii >= nx \/ jj >= ny

----------------------------------------------------------------------------
(* Inputs *)

NoCall == [fn |-> "none", nums |-> <<>>, axis |-> "", text |-> <<>>]

GridCoords == {PyInt(k) : k \in -1..MaxCoord}
GridSteps == {PyInt(-1), PyInt(0), PyInt(1), PyFlt(50), PyFlt(100), PyFlt(150)}

WktValues == GridCoords \cup {PyFlt(-150), PyFlt(25)}

CodeValues == {PyInt(-10), PyInt(-9), PyInt(-5), PyInt(-4), PyInt(0),
               PyFlt(0), PyFlt(25), PyFlt(-150)}

FormatValues == {PyInt(k) : k \in -MaxInt..MaxInt}
                \cup {PyFlt(h) : h \in -MaxCenti..MaxCenti}
Axes == {"x", "y", "None"}

TextAlphabet == {"n", "W", "x", "5", "p", "e", "-", " ", "_"}
ExtraTexts == { <<"n","i","n","f">>, <<"s","n","a","n">>, <<"N","1","P","5">>,
                <<"e","1","2","p","2","5">>, <<"w","1","0">>, <<"+","5">>,
                <<"e","1","_","0","0","0">>, <<"s","1","e","+","5">>,
                <<"n","1","p","2","p","3">>, <<"n","1","e","5">>,
                <<"n","p","5">>, <<"n","5","p">>, <<"n","+","5">> }
Texts == UNION {[1..n -> TextAlphabet] : n \in 0..MaxTextLen} \cup ExtraTexts

----------------------------------------------------------------------------
(* The calls *)

Init ==
    /\ pc = "start"
    /\ call = NoCall
    /\ ret = NoRet
    /\ xs = <<>>
    /\ ys = <<>>
    /\ i = 0
    /\ j = 0
    /\ c_id = 0
    /\ lst = EmptyLists

CallCreateRectangleWkt ==
    /\ pc = "start"
    /\ \E x_min \in WktValues, x_max \in WktValues,
          y_min \in WktValues, y_max \in WktValues :
        /\ call' = [NoCall EXCEPT !.fn = "create_rectangle_wkt",
                                  !.nums = <<x_min, x_max, y_min, y_max>>]
        /\ ret' = ReturnText(create_rectangle_wkt(x_min, x_max, y_min, y_max))
        /\ pc' = "done"
        /\ UNCHANGED <<xs, ys, i, j, c_id, lst>>

CallRetrieveNumber ==
    /\ pc = "start"
    /\ \E s \in Texts :
        /\ call' = [NoCall EXCEPT !.fn = "retrieve_number", !.text = s]
        /\ ret' = retrieve_number(s)
        /\ pc' = "done"
        /\ UNCHANGED <<xs, ys, i, j, c_id, lst>>

CallFormatNumber ==
    /\ pc = "start"
    /\ \E x \in FormatValues, axis \in Axes :
        /\ call' = [NoCall EXCEPT !.fn = "format_number", !.nums = <<x>>,
                                  !.axis = axis]
        /\ ret' = format_number(x, axis)
        /\ pc' = "done"
        /\ UNCHANGED <<xs, ys, i, j, c_id, lst>>

\* retrieve_number applied to the text a format_number call returned;
\* call.nums keeps the number that was formatted
RetrieveFormatted ==
    /\ pc = "done"
    /\ call.fn = "format_number"
    /\ ret.exc = "none"
    /\ call' = [call EXCEPT !.fn = "retrieve_number", !.text = ret.text]
    /\ ret' = retrieve_number(ret.text)
    /\ pc' = "done"
    /\ UNCHANGED <<xs, ys, i, j, c_id, lst>>

CallGetCode ==
    /\ pc = "start"
    /\ \E x_min \in CodeValues, x_max \in CodeValues,
          y_min \in CodeValues, y_max \in CodeValues :
        /\ call' = [NoCall EXCEPT !.fn = "get_code",
                                  !.nums = <<x_min, x_max, y_min, y_max>>]
        /\ ret' = ReturnText(get_code(x_min, x_max, y_min, y_max))
        /\ pc' = "done"
        /\ UNCHANGED <<xs, ys, i, j, c_id, lst>>

\* get_grid_df up to its loops: the two np.arange calls and the empty lists
GridCall ==
    /\ pc = "start"
    /\ \E step \in GridSteps, xs_min \in GridCoords, xs_max \in GridCoords,
          ys_min \in GridCoords, ys_max \in GridCoords :
        /\ call' = [NoCall EXCEPT !.fn = "get_grid_df",
                                  !.nums = <<step, xs_min, xs_max, ys_min, ys_max>>]
        /\ IF step.v = 0
           THEN /\ ret' = Raise("ZeroDivisionError")
                /\ pc' = "done"
                /\ UNCHANGED <<xs, ys, i, j, c_id, lst>>
           ELSE /\ xs' = Arange(xs_min, xs_max, step)
                /\ ys' = Arange(ys_min, ys_max, step)
                /\ lst' = EmptyLists
                /\ c_id' = 1
                /\ i' = 0
                /\ j' = 0
                /\ ret' = NoRet
                /\ pc' = "loop"

\* one pass through the body of the inner loop
GridIter ==
    /\ pc = "loop"
    /\ ~LoopOver(i, j, Len(xs) - 1, Len(ys) - 1)
    /\ lst' = LoopBody(lst, i, j, c_id)
    /\ c_id' = c_id + 1
    /\ i' = LoopAdvance(i, j, Len(xs) - 1, Len(ys) - 1)[1]
    /\ j' = LoopAdvance(i, j, Len(xs) - 1, Len(ys) - 1)[2]
    /\ UNCHANGED <<pc, call, ret, xs, ys>>

\* the loops are over: the DataFrame is assembled and returned
GridReturn ==
    /\ pc = "loop"
    /\ LoopOver(i, j, Len(xs) - 1, Len(ys) - 1)
    /\ ret' = ReturnRows(DataFrame(lst))
    /\ pc' = "done"
    /\ UNCHANGED <<call, xs, ys, i, j, c_id, lst>>

Next ==
    \/ CallCreateRectangleWkt
    \/ CallRetrieveNumber
    \/ CallFormatNumber
    \/ RetrieveFormatted
    \/ CallGetCode
    \/ GridCall
    \/ GridIter
    \/ GridReturn

Spec == Init /\ [][Next]_vars

----------------------------------------------------------------------------
(* What the properties below read off a finished call *)

GridDone == pc = "done" /\ call.fn = "get_grid_df"
gStep == call.nums[1].v
gXMin == call.nums[2].v
gXMax == call.nums[3].v
gYMin == call.nums[4].v
gYMax == call.nums[5].v

\* the bounds of a row of the table, in hundredths
Bounds(r) == <<r.x_min.v, r.x_max.v, r.y_min.v, r.y_max.v>>

\* the decimal a number of the program stands for
DecOf(x) == NormDec(x.v < 0, AbsInt(x.v), -2)

\* numeric equality of two floats: the two zeros are equal
NumEq(d1, d2) ==
    \/ d1 = d2
    \/ d1.cls = "fin" /\ d2.cls = "fin" /\ d1.mant = 0 /\ d2.mant = 0

\* s cut at every occurrence of the character c
RECURSIVE Split(_, _)
Split(s, c) ==
    LET k == IndexOf(s, {c})
    IN  IF k = 0 THEN <<s>>
        ELSE <<SubSeq(s, 1, k - 1)>> \o Split(SubSeq(s, k + 1, Len(s)), c)

RECURSIVE Pow10(_)
Pow10(n) == IF n <= 0 THEN 1 ELSE 10 * Pow10(n - 1)

\* a parsed decimal of at most two places, back in hundredths
HundredthsOf(d) == (IF d.neg THEN -1 ELSE 1) * d.mant * Pow10(d.exp + 2)

\* the points of the ring of a POLYGON((...)) text, in hundredths
RingOf(wkt) ==
    LET inner == SubSeq(wkt, 10, Len(wkt) - 2)
        pieces == Split(inner, ",")
    IN  [k \in 1..Len(pieces) |->
            LET xy == Split(LStrip(pieces[k]), " ")
            IN  <<HundredthsOf(PyFloat(xy[1]).dec), HundredthsOf(PyFloat(xy[2]).dec)>>]

\* twice the signed area of a closed ring (shoelace): positive when the
\* ring runs counter-clockwise with x to the right and y upward
RECURSIVE Shoelace(_, _)
Shoelace(pts, k) ==
    IF k >= Len(pts) THEN 0
    ELSE pts[k][1] * pts[k + 1][2] - pts[k + 1][1] * pts[k][2] + Shoelace(pts, k + 1)

----------------------------------------------------------------------------
(* C1 -- for step > 0 and a box of width n*step and height m*step the     *)
(* table has exactly n*m cells with ids 1..n*m, the first cell is          *)
(* (xMin, xMin+step, yMin, yMin+step) and the last is                      *)
(* (xMax-step, xMax, yMax-step, yMax).                                     *)
C1_WholeBoxTiled ==
    ( /\ GridDone
      /\ gStep > 0 /\ gXMin < gXMax /\ gYMin < gYMax
      /\ (gXMax - gXMin) % gStep = 0
      /\ (gYMax - gYMin) % gStep = 0 )
    => LET n == (gXMax - gXMin) \div gStep
           m == (gYMax - gYMin) \div gStep
           rows == ret.rows
       IN  /\ ret.exc = "none"
           /\ Len(rows) = n * m
           /\ \A k \in 1..Len(rows) : rows[k].Id = k
           /\ Bounds(rows[1]) = <<gXMin, gXMin + gStep, gYMin, gYMin + gStep>>
           /\ Bounds(rows[n * m]) = <<gXMax - gStep, gXMax, gYMax - gStep, gYMax>>

(* C2 -- for step > 0 and a proper box, every point of                     *)
(* [xMin,xMax) x [yMin,yMax) lies in exactly one cell of the table.  The   *)
(* points tried are those a quarter of a unit apart, which is finer than   *)
(* every cell edge of the model.                                           *)
C2_EveryPointInOneCell ==
    ( GridDone /\ gStep > 0 /\ gXMin < gXMax /\ gYMin < gYMax )
    => LET q == Scale \div 4
           px == {gXMin + q * a : a \in 0..((gXMax - gXMin - 1) \div q)}
           py == {gYMin + q * b : b \in 0..((gYMax - gYMin - 1) \div q)}
           rows == ret.rows
       IN  /\ ret.exc = "none"
           /\ \A x \in px, y \in py :
                 Cardinality({k \in 1..Len(rows) :
                     /\ rows[k].x_min.v <= x /\ x < rows[k].x_max.v
                     /\ rows[k].y_min.v <= y /\ y < rows[k].y_max.v}) = 1

(* C3 -- retrieve_number(format_number(v, axis)) returns the number v      *)
(* that was formatted, for either axis and either sign.                    *)
C3_RoundTrip ==
    ( pc = "done" /\ call.fn = "retrieve_number" /\ call.nums # <<>> )
    => /\ ret.exc = "none"
       /\ NumEq(ret.dec, DecOf(call.nums[1]))

C3_Witness ==
    /\ pc = "done" /\ call.fn = "retrieve_number"
    /\ call.nums = <<PyFlt(-125)>>
    /\ call.axis = "x"
    /\ call.text = <<"w", "1", "p", "2", "5">>
    /\ ret.dec = [cls |-> "fin", neg |-> TRUE, mant |-> 125, exp |-> -2]

WktDone == pc = "done" /\ call.fn = "create_rectangle_wkt"

\* the text is POLYGON((...)) around five points that visit
\* (xMin,yMin), (xMin,yMax), (xMax,yMax), (xMax,yMin), (xMin,yMin)
RingAsDocumented ==
    LET a == call.nums
        pts == RingOf(ret.text)
    IN  /\ SubSeq(ret.text, 1, 9) = <<"P","O","L","Y","G","O","N","(","(">>
        /\ SubSeq(ret.text, Len(ret.text) - 1, Len(ret.text)) = <<")", ")">>
        /\ Len(pts) = 5
        /\ pts[1] = pts[5]
        /\ pts = << <<a[1].v, a[3].v>>, <<a[1].v, a[4].v>>, <<a[2].v, a[4].v>>,
                    <<a[2].v, a[3].v>>, <<a[1].v, a[3].v>> >>

(* C4 as stated -- the ring of create_rectangle_wkt visits the five        *)
(* documented points in order and runs counter-clockwise (positive signed  *)
(* area).                                                                  *)
C4_CounterClockwise ==
    ( WktDone /\ call.nums[1].v < call.nums[2].v /\ call.nums[3].v < call.nums[4].v )
    => /\ RingAsDocumented
       /\ Shoelace(RingOf(ret.text), 1) > 0

(* C4 as amended -- the ring of create_rectangle_wkt visits the five       *)
(* documented points in order, and that order runs clockwise (negative     *)
(* signed area) with x to the right and y upward.                          *)
C4_ClockwiseRing ==
    ( WktDone /\ call.nums[1].v < call.nums[2].v /\ call.nums[3].v < call.nums[4].v )
    => /\ RingAsDocumented
       /\ Shoelace(RingOf(ret.text), 1) < 0

C4_Witness ==
    /\ WktDone
    /\ call.nums = <<PyInt(0), PyInt(1), PyInt(0), PyInt(1)>>
    /\ ret.text = <<"P","O","L","Y","G","O","N","(","(",
                    "0"," ","0",","," ","0"," ","1",","," ","1"," ","1",","," ",
                    "1"," ","0",","," ","0"," ","0",")",")">>
    /\ Shoelace(RingOf(ret.text), 1) = -2 * Scale * Scale

(* C5 -- get_code returns four encoded bounds joined by "-" in the order   *)
(* xMin, xMax, yMin, yMax; x bounds carry e (>= 0) or w (< 0), y bounds n  *)
(* or s, each followed by the absolute value with "." written "p"; and     *)
(* get_code(-10, -9, -5, -4) is "w10-w9-s5-s4".                            *)
C5_TileCode ==
    ( pc = "done" /\ call.fn = "get_code" )
    => LET parts == Split(ret.text, "-")
           letter(k) == IF k <= 2
                        THEN (IF call.nums[k].v >= 0 THEN "e" ELSE "w")
                        ELSE (IF call.nums[k].v >= 0 THEN "n" ELSE "s")
       IN  /\ Len(parts) = 4
           /\ \A k \in 1..4 :
                 /\ Len(parts[k]) >= 2
                 /\ parts[k][1] = letter(k)
                 /\ \A m \in 2..Len(parts[k]) : parts[k][m] \in DigitSet \cup {"p"}
                 /\ LET mag == PyFloat(Replace(Tail(parts[k]), "p", "."))
                    IN  /\ mag.exc = "none"
                        /\ NumEq(mag.dec, DecOf(PyAbs(call.nums[k])))
           /\ call.nums = <<PyInt(-10), PyInt(-9), PyInt(-5), PyInt(-4)>>
                 => ret.text = <<"w","1","0","-","w","9","-","s","5","-","s","4">>

C5_Witness ==
    /\ pc = "done" /\ call.fn = "get_code"
    /\ call.nums = <<PyFlt(-150), PyFlt(25), PyInt(-5), PyInt(0)>>
    /\ ret.text = <<"w","1","p","5","-","e","0","p","2","5","-","s","5","-","n","0">>

(* C6 -- in a returned table the ids are 1..N in row order and the rows    *)
(* are x-major: the cell of x-band i and y-band j (0-based) is row         *)
(* i*(number of y-bands) + j + 1 and carries that id.                      *)
C6_IdsInXMajorOrder ==
    ( GridDone /\ ret.exc = "none" )
    => LET nx == IF Len(xs) > 1 THEN Len(xs) - 1 ELSE 0
           ny == IF Len(ys) > 1 THEN Len(ys) - 1 ELSE 0
           rows == ret.rows
       IN  /\ Len(rows) = nx * ny
           /\ \A k \in 1..Len(rows) : rows[k].Id = k
           /\ \A bi \in 0..(nx - 1), bj \in 0..(ny - 1) :
                 /\ rows[bi * ny + bj + 1].Id = bi * ny + bj + 1
                 /\ Bounds(rows[bi * ny + bj + 1]) =
                        <<xs[bi + 1].v, xs[bi + 2].v, ys[bj + 1].v, ys[bj + 2].v>>

C6_Witness ==
    /\ GridDone /\ ret.exc = "none"
    /\ Len(xs) = 3 /\ Len(ys) = 4
    /\ Len(ret.rows) = 6
    /\ ret.rows[4].Id = 4
    /\ ret.rows[4].x_min # ret.rows[3].x_min
    /\ ret.rows[4].y_min = ret.rows[1].y_min

(* C7 -- whenever step <= 0 or xMin >= xMax or yMin >= yMax, get_grid_df   *)
(* returns an empty table and raises nothing.                              *)
C7_DegenerateIsEmpty ==
    ( GridDone /\ (gStep <= 0 \/ gXMin >= gXMax \/ gYMin >= gYMax) )
    => /\ ret.exc = "none"
       /\ ret.rows = <<>>

(* C8 -- format_number with axis None raises nothing and returns the       *)
(* absolute value with "." written "p" and no hemisphere letter.           *)
C8_AxisNoneIsNumeric ==
    ( pc = "done" /\ call.fn = "format_number" /\ call.axis = "None" )
    => /\ ret.exc = "none"
       /\ ret.text = Replace(PyStr(PyAbs(call.nums[1])), ".", "p")

\* <digits>[p<digits>]
NonNegativeDecimal(s) ==
    LET parts == Split(s, "p")
    IN  /\ Len(parts) \in {1, 2}
        /\ \A k \in 1..Len(parts) :
              /\ Len(parts[k]) >= 1
              /\ \A m \in 1..Len(parts[k]) : parts[k][m] \in DigitSet

Hemispheres == {"n", "s", "e", "w", "N", "S", "E", "W"}

(* C9 -- retrieve_number returns a value only for <hemisphere><digits>     *)
(* [p<digits>]; it fails when the first character is none of N, S, E, W    *)
(* (either case) and when the remainder is not a non-negative decimal.     *)
C9_DecodeContract ==
    ( pc = "done" /\ call.fn = "retrieve_number" /\ call.nums = <<>> )
    => LET s == call.text
           hem == Len(s) >= 1 /\ s[1] \in Hemispheres
           rest == Len(s) >= 1 /\ NonNegativeDecimal(Tail(s))
       IN  /\ ret.exc = "none" => (hem /\ rest)
           /\ ~hem => ret.exc # "none"
           /\ ~rest => ret.exc # "none"

====
